---- MODULE Spec2Model ----
(***************************************************************************)
(* Bulk batch engines of bulk-unzip: the command-line extract engine       *)
(* (src/src/main.rs bulk_unzip), the desktop extract engine                *)
(* (src/src-tauri/src/lib.rs bulk_unzip) and the strip engine              *)
(* (src/src/metadata_stripper.rs bulk_strip_metadata; the desktop copy in  *)
(* src/src-tauri/src/metadata_stripper.rs has the same structure).         *)
(*                                                                         *)
(* One behaviour is one invocation of a bulk operation: discovery, the     *)
(* run-level checks, partitioning, the joined futures, the return.         *)
(* The futures handed to join_all are modelled as concurrently runnable    *)
(* tasks that interleave between the start and the end of an item's        *)
(* transform: this is the scheduling join_all permits. The transforms call  *)
(* blocking std::fs, so a build in which no transform ever yields runs     *)
(* them one after the other, which is one of these interleavings.          *)
(*                                                                         *)
(* SpecTwice runs an unzip batch again on the disk the run before left.    *)
(* SpecPolled is the unzip engines under the scheduling of the build, in   *)
(* which a polled transform runs to its end. SpecStrip is one call of      *)
(* strip_metadata_file alone, with the frames of the tag and the keep      *)
(* list in view.                                                           *)
(***************************************************************************)
EXTENDS Integers, Sequences, FiniteSets, TLC

\* ---------------------------------------------------------------- bounds
MaxFiles == 3        \* entries below the root in a full run
MaxWorkers == 3      \* requested workers in a full run
MaxTree == 4         \* entries below the root when only the scan is run
MaxScanWorkers == 4  \* requested workers when only the scan is run
MaxFairFiles == 2    \* entries below the root in a run checked for liveness
MaxRuns == 3         \* runs of the same batch, one after the other

\* ---------------------------------------------------------------- inputs
Engines == {"cli_unzip", "gui_unzip", "strip"}
IsUnzip(e) == e \in {"cli_unzip", "gui_unzip"}

Names == {"a", "b"}

\* One entry met by the directory walk, in traversal order.
\*   file  : a regular file with the wanted extension
\*   other : an entry whose extension does not match (or a directory)
\*   err   : an entry the walk could not read (dropped by filter_map(e.ok()))
\*   gone  : a matching file for which is_file() holds and fs::metadata fails
\* name is the file stem (unzip; the strip engine never reads it); bad says
\* the item's I/O fails (a corrupt archive, a failing copy or tag write); tag
\* says a tag can be read.
FileEntries(e, names) ==
    [kind : {"file"}, name : IF IsUnzip(e) THEN names ELSE {"a"},
     bad : BOOLEAN, tag : IF IsUnzip(e) THEN {FALSE} ELSE BOOLEAN]
OddEntries(kinds) ==
    [kind : kinds, name : {"a"}, bad : {FALSE}, tag : {FALSE}]

SeqsUpTo(S, n) == UNION {[1..k -> S] : k \in 0..n}

VARIABLES
    engine,      \* which bulk operation runs
    root_ok,     \* the root directory can be walked
    tree,        \* the entries below the root, in traversal order
    workers,     \* requested worker count
    skip,        \* skip_existing (unzip) / skip_clean (strip)
    dry_run,     \* strip: dry_run
    remove_all,  \* strip: remove_all
    has_output,  \* an output root is configured (always for unzip)
    output_ok,   \* create_dir_all(output) succeeds
    pre_dirs,    \* unzip: target directories that exist before the run
    out_exists,  \* the output root exists before the run
    run,         \* 1 for the first run of the batch, more for a repeated one
    prev,        \* the disk as the run before this one left it
    left_failed, \* unzip: the items whose extraction failed in an earlier
                 \* run, every run since then being one with skip_existing
    sopt,        \* one strip transform alone: its arguments
    sfs,         \* one strip transform alone: the files it can touch
    sres,        \* one strip transform alone: "none", "ok", "err"
    pc,          \* "start", "running", "done"
    ret,         \* "none", "ok", "err", "panic"
    disc,        \* result of discovery: "none", "ok", "err"
    catalog,     \* the discovered catalog (indices into tree)
    chunks,      \* the partition of the items to process
    cur,         \* gui_unzip: index of the chunk being joined
    st,          \* per item: "pending", "running", "ok", "failed"
    calls,       \* per item: number of invocations of the transform
    out_made,    \* the output root was created by this run
    made,        \* unzip: target directories created by this run
    written,     \* items whose output was written completely
    results,     \* the list the run returns (gui_unzip)
    report       \* the per-item lines printed while running (a set: the
                 \* order of terminal lines is not modelled)

vars == <<engine, root_ok, tree, workers, skip, dry_run, remove_all, has_output,
          output_ok, pre_dirs, out_exists, run, prev, left_failed,
          sopt, sfs, sres, pc, ret, disc, catalog, chunks, cur, st, calls,
          out_made, made, written, results, report>>

\* what no step of a single run changes
inputs == <<engine, root_ok, tree, workers, skip, dry_run, remove_all,
            has_output, output_ok, pre_dirs, out_exists, run, prev,
            left_failed, sopt, sfs, sres>>

Min(a, b) == IF a < b THEN a ELSE b

Items == 1..Len(tree)

\* ------------------------------------------------------------- discovery
\* find_zip_files / find_mp3_files: the loop over the walk. An entry the walk
\* could not read is dropped, a non-matching entry is passed over, a matching
\* file is pushed; `?` on fs::metadata returns the error at once.
RECURSIVE WalkFrom(_, _, _)
WalkFrom(t, k, acc) ==
    IF k > Len(t) THEN [err |-> FALSE, files |-> acc]
    ELSE IF t[k].kind = "file" THEN WalkFrom(t, k + 1, Append(acc, k))
    ELSE IF t[k].kind = "gone" THEN [err |-> TRUE, files |-> acc]
    ELSE WalkFrom(t, k + 1, acc)

\* A root that cannot be walked makes WalkDir yield one Err item, which
\* filter_map(|e| e.ok()) drops: the loop body never runs.
find_files(ok, t) ==
    IF ok THEN WalkFrom(t, 1, <<>>) ELSE [err |-> FALSE, files |-> <<>>]

\* ----------------------------------------------------------- partitioner
\* (len + workers - 1) / workers, for workers >= 1 (usize: the sum stays far
\* below 2^64 for the worker counts modelled)
ChunkSize_floor(len, w) == IF len \div w = 0 THEN 1 ELSE len \div w

ChunkSize_plus_one(len, w) == len \div w + 1

ChunkSize(len, w) == (len + w - 1) \div w

\* slice::chunks(n), n >= 1
RECURSIVE Chunks(_, _)
Chunks(s, n) ==
    IF s = <<>> THEN <<>>
    ELSE LET h == Min(n, Len(s))
         IN  <<SubSeq(s, 1, h)>> \o Chunks(SubSeq(s, h + 1, Len(s)), n)

RECURSIVE Flatten(_)
Flatten(ss) == IF ss = <<>> THEN <<>> ELSE Head(ss) \o Flatten(Tail(ss))

\* files_with_metadata / files_to_process of bulk_strip_metadata
WithMetadata(t, files) == SelectSeq(files, LAMBDA i : t[i].tag)
ToProcess_all(e, sk, t, files) == files

ToProcess(e, sk, t, files) ==
    IF ~IsUnzip(e) /\ sk THEN WithMetadata(t, files) ELSE files

\* ------------------------------------------------------------------ init
\* The inputs of one invocation. Options an engine does not have keep their
\* default; directories that exist beforehand matter with skip_existing only.
\* full is FALSE when only the scan is run: what the scan never reads
\* (remove_all, the target directories) then keeps one value.
InputsOk(trees, maxw, full) ==
    /\ engine \in Engines
    /\ root_ok \in BOOLEAN
    /\ tree \in (IF root_ok THEN trees[engine] ELSE {<<>>})
    /\ workers \in 0..maxw
    /\ skip \in BOOLEAN
    /\ dry_run \in (IF IsUnzip(engine) THEN {FALSE} ELSE BOOLEAN)
    /\ remove_all \in (IF ~IsUnzip(engine) /\ full THEN BOOLEAN ELSE {FALSE})
    /\ has_output \in (IF IsUnzip(engine) THEN {TRUE} ELSE BOOLEAN)
    /\ output_ok \in (IF has_output THEN BOOLEAN ELSE {TRUE})
    /\ pre_dirs \in (IF IsUnzip(engine) /\ skip /\ full
                       THEN SUBSET Names ELSE {{}})
    /\ out_exists \in (IF IsUnzip(engine) THEN {pre_dirs # {}}
                         ELSE IF has_output /\ output_ok /\ full THEN BOOLEAN
                         ELSE {FALSE})

\* no strip transform is run on its own
NoTransform ==
    /\ sopt = <<>>
    /\ sfs = <<>>
    /\ sres = "none"

FirstRun ==
    /\ run = 1
    /\ prev = <<>>
    /\ left_failed = {}
    /\ NoTransform

Fresh ==
    /\ pc = "start"
    /\ ret = "none"
    /\ disc = "none"
    /\ catalog = <<>>
    /\ chunks = <<>>
    /\ cur = 0
    /\ st = [i \in Items |-> "pending"]
    /\ calls = [i \in Items |-> 0]
    /\ out_made = FALSE
    /\ made = {}
    /\ written = {}
    /\ results = <<>>
    /\ report = {}

RunTrees ==
    [e \in Engines |->
        SeqsUpTo(FileEntries(e, Names) \cup OddEntries({"gone"}), MaxFiles)]

Init == InputsOk(RunTrees, MaxWorkers, TRUE) /\ FirstRun /\ Fresh

ScanTrees ==
    [e \in Engines |->
        SeqsUpTo([kind : {"file"}, name : {"a"}, bad : {FALSE},
                  tag : IF IsUnzip(e) THEN {FALSE} ELSE BOOLEAN]
                 \cup OddEntries({"other", "err", "gone"}), MaxTree)]

InitScan == InputsOk(ScanTrees, MaxScanWorkers, FALSE) /\ FirstRun /\ Fresh

\* ------------------------------------------------------------ result lines
\* gui_unzip: "Extracted: <path>" / "Error extracting <path>: <cause>";
\* cli and strip: the progress bar's closing message / the eprintln! line.
Line_always_ok(i, ok) == [item |-> i, ok |-> TRUE]

Line(i, ok) == [item |-> i, ok |-> ok]
NoneFound == [item |-> 0, ok |-> TRUE]

\* ------------------------------------------------------------------- scan
\* bulk_unzip / bulk_strip_metadata up to the point where the futures are
\* built: discovery, the empty and all-clean early returns, the creation of
\* the output root, the chunking.
\* the `?` after create_dir_all(output) left out: the error is kept but the
\* function goes on to build and join the futures
Stop_no_return(r, d, cat, res, om) ==
    IF r = "err" /\ d = "ok" /\ workers > 0
      THEN /\ pc' = "running"
           /\ ret' = r
           /\ disc' = d
           /\ catalog' = cat
           /\ results' = res
           /\ out_made' = om
           /\ chunks' = LET todo == ToProcess(engine, skip, tree, cat)
                        IN  Chunks(todo, ChunkSize(Len(todo), workers))
           /\ cur' = IF engine = "gui_unzip" THEN 1 ELSE 0
      ELSE /\ pc' = "done"
           /\ ret' = r
           /\ disc' = d
           /\ catalog' = cat
           /\ results' = res
           /\ out_made' = om
           /\ UNCHANGED <<chunks, cur>>

Stop(r, d, cat, res, om) ==
    /\ pc' = "done"
    /\ ret' = r
    /\ disc' = d
    /\ catalog' = cat
    /\ results' = res
    /\ out_made' = om
    /\ UNCHANGED <<chunks, cur>>

\* `if zip_files.is_empty() { return Ok(..) }`, before anything else is done
\* with the catalog
EarlyEmpty_never(files) == FALSE

EarlyEmpty(files) == files = <<>>

\* `if args.skip_clean && files_with_metadata.is_empty() { return Ok(()) }`
AllClean_never(files) == FALSE

AllClean(files) ==
    ~IsUnzip(engine) /\ skip /\ WithMetadata(tree, files) = <<>>

\* create_dir_all(output) creates the output root unless it is there already
MakesOutput == has_output /\ ~out_exists

Scan ==
    /\ pc = "start"
    /\ LET d    == find_files(root_ok, tree)
           todo == ToProcess(engine, skip, tree, d.files)
       IN  IF d.err
             THEN Stop("err", "err", <<>>, <<>>, FALSE)
           ELSE IF EarlyEmpty(d.files)
             THEN Stop("ok", "ok", d.files,
                       IF engine = "gui_unzip" THEN <<NoneFound>> ELSE <<>>,
                       FALSE)
           ELSE IF AllClean(d.files)
             THEN Stop("ok", "ok", d.files, <<>>, FALSE)
           ELSE IF has_output /\ ~output_ok
             THEN Stop("err", "ok", d.files, <<>>, FALSE)
           ELSE IF workers = 0
             THEN Stop("panic", "ok", d.files, <<>>, MakesOutput)
           ELSE /\ pc' = "running"
                /\ disc' = "ok"
                /\ catalog' = d.files
                /\ out_made' = MakesOutput
                /\ chunks' = Chunks(todo, ChunkSize(Len(todo), workers))
                /\ cur' = IF engine = "gui_unzip" THEN 1 ELSE 0
                /\ UNCHANGED <<ret, results>>
    /\ UNCHANGED <<inputs, st, calls, made, written, report>>

\* ------------------------------------------------------------------ tasks
Terminal(i) == st[i] \in {"ok", "failed"}
InChunk(c) == {chunks[c][k] : k \in 1..Len(chunks[c])}
Dispatched == UNION {InChunk(c) : c \in 1..Len(chunks)}
Running == {i \in Items : st[i] = "running"}

\* cli_unzip / strip: the future of chunk c is the loop `for f in chunk`; it
\* goes on to the next item whether the last one failed or not (if let Err).
TaskLive_abort(c) ==
    /\ \E i \in InChunk(c) : ~Terminal(i)
    /\ \A i \in InChunk(c) : st[i] # "failed"

TaskLive(c) == \E i \in InChunk(c) : ~Terminal(i)

\* the item the loop of chunk c is at
NextItem(c) ==
    LET k == CHOOSE k \in 1..Len(chunks[c]) :
                 /\ ~Terminal(chunks[c][k])
                 /\ \A j \in 1..(k - 1) : Terminal(chunks[c][j])
    IN  chunks[c][k]

\* The items whose transform may be entered now.
\*   cli_unzip, strip: join_all over one future per chunk, each future
\*     working through its chunk in order;
\*   gui_unzip: `for chunk in chunks`, join_all over one future per item of
\*     that chunk.
Runnable(i) ==
    IF engine = "gui_unzip"
      THEN cur \in 1..Len(chunks) /\ i \in InChunk(cur) /\ st[i] = "pending"
      ELSE \E c \in 1..Len(chunks) :
               TaskLive(c) /\ NextItem(c) = i /\ st[i] = "pending"

\* what the engine prints for a finished item: the progress bar's closing
\* message or the eprintln! line (command line); the desktop extract engine
\* prints nothing and returns its lines
Printed(i, ok) ==
    IF engine = "gui_unzip" THEN {} ELSE {Line(i, ok)}

\* ------------------------------------------------------------- transforms
\* extract_zip_file, up to and including create_dir_all(extract_dir)
\* output_dir.join(file_stem): the target directory of an archive is named
\* by its stem alone, whatever sub-directory of the root the archive is in
Target(i) == tree[i].name

extract_begin_if_extracted(i) ==
    IF skip /\ run > 1 /\ i \in prev.files
      THEN /\ st' = [st EXCEPT ![i] = "ok"]
           /\ report' = report \cup Printed(i, TRUE)
           /\ UNCHANGED made
      ELSE /\ st' = [st EXCEPT ![i] = "running"]
           /\ made' = made \cup {Target(i)}
           /\ UNCHANGED report

extract_begin_open_first(i) ==
    IF skip /\ Target(i) \in (pre_dirs \cup made)
      THEN /\ st' = [st EXCEPT ![i] = "ok"]
           /\ report' = report \cup Printed(i, TRUE)
           /\ UNCHANGED made
      ELSE /\ st' = [st EXCEPT ![i] = "running"]
           /\ made' = IF tree[i].bad THEN made ELSE made \cup {Target(i)}
           /\ UNCHANGED report

extract_begin(i) ==
    LET target == Target(i)
    IN  IF skip /\ target \in (pre_dirs \cup made)
          THEN /\ st' = [st EXCEPT ![i] = "ok"]
               /\ report' = report \cup Printed(i, TRUE)
               /\ UNCHANGED made
          ELSE /\ st' = [st EXCEPT ![i] = "running"]
               /\ made' = made \cup {target}
               /\ UNCHANGED report

\* extract_zip_file, from File::open to the end
extract_end(i) ==
    IF tree[i].bad
      THEN /\ st' = [st EXCEPT ![i] = "failed"]
           /\ report' = report \cup Printed(i, FALSE)
           /\ UNCHANGED written
      ELSE /\ st' = [st EXCEPT ![i] = "ok"]
           /\ report' = report \cup Printed(i, TRUE)
           /\ written' = written \cup {i}

\* strip_metadata_file writes when it copies to the output root or rewrites
\* a readable tag
StripWrites(i) == has_output \/ (tree[i].tag /\ remove_all)

\* strip_metadata_file: dry_run skips the whole body
strip_begin(i) ==
    /\ UNCHANGED made
    /\ IF dry_run
         THEN /\ st' = [st EXCEPT ![i] = "ok"]
              /\ report' = report \cup Printed(i, TRUE)
         ELSE /\ st' = [st EXCEPT ![i] = "running"]
              /\ UNCHANGED report

\* strip_metadata_file: copy, tag read, tag write
strip_end(i) ==
    IF StripWrites(i) /\ tree[i].bad
      THEN /\ st' = [st EXCEPT ![i] = "failed"]
           /\ report' = report \cup Printed(i, FALSE)
           /\ UNCHANGED written
      ELSE /\ st' = [st EXCEPT ![i] = "ok"]
           /\ report' = report \cup Printed(i, TRUE)
           /\ written' = IF StripWrites(i) THEN written \cup {i} ELSE written

\* ---------------------------------------------------------------- actions
StartItem(i) ==
    /\ pc = "running"
    /\ Runnable(i)
    /\ calls' = [calls EXCEPT ![i] = @ + 1]
    /\ IF IsUnzip(engine) THEN extract_begin(i) ELSE strip_begin(i)
    /\ UNCHANGED <<inputs, pc, ret, disc, catalog, chunks, cur, out_made,
                   written, results>>

FinishItem(i) ==
    /\ pc = "running"
    /\ st[i] = "running"
    /\ IF IsUnzip(engine) THEN extract_end(i) ELSE strip_end(i)
    /\ UNCHANGED <<inputs, pc, ret, disc, catalog, chunks, cur, calls,
                   out_made, made, results>>

\* gui_unzip: join_all(futures).await for the current chunk, then
\* results.extend(chunk_results)
ChunkJoined(c) == \A i \in InChunk(c) : Terminal(i)

\* join_all returns the futures' outputs in the order of the futures
ChunkLines_reversed(c) ==
    [k \in 1..Len(chunks[c]) |->
        Line(chunks[c][Len(chunks[c]) + 1 - k],
             st[chunks[c][Len(chunks[c]) + 1 - k]] = "ok")]

ChunkLines(c) ==
    [k \in 1..Len(chunks[c]) |-> Line(chunks[c][k], st[chunks[c][k]] = "ok")]

JoinChunk ==
    /\ pc = "running"
    /\ engine = "gui_unzip"
    /\ cur \in 1..Len(chunks)
    /\ ChunkJoined(cur)
    /\ results' = results \o ChunkLines(cur)
    /\ cur' = cur + 1
    /\ UNCHANGED <<inputs, pc, ret, disc, catalog, chunks, st, calls,
                   out_made, made, written, report>>

\* gui_unzip: Ok(results) after the loop over the chunks
ReturnResults ==
    /\ pc = "running"
    /\ engine = "gui_unzip"
    /\ cur > Len(chunks)
    /\ pc' = "done"
    /\ ret' = "ok"
    /\ UNCHANGED <<inputs, disc, catalog, chunks, cur, st, calls, out_made,
                   made, written, results, report>>

\* cli_unzip, strip: join_all(futures).await, then Ok(())
AllJoined_first == \E c \in 1..Len(chunks) : ~TaskLive(c)

AllJoined_successes == \A i \in Dispatched : st[i] = "ok"

AllJoined == \A c \in 1..Len(chunks) : ~TaskLive(c)

JoinAll ==
    /\ pc = "running"
    /\ engine # "gui_unzip"
    /\ AllJoined
    /\ pc' = "done"
    /\ ret' = "ok"
    /\ UNCHANGED <<inputs, disc, catalog, chunks, cur, st, calls, out_made,
                   made, written, results, report>>

Next ==
    \/ Scan
    \/ \E i \in Items : StartItem(i)
    \/ \E i \in Items : FinishItem(i)
    \/ JoinChunk
    \/ ReturnResults
    \/ JoinAll

Spec == Init /\ [][Next]_vars

\* join_all keeps polling its futures until all are done, and the runtime
\* drives the one top-level future: a step that stays possible is taken.
FairTrees ==
    [e \in Engines |->
        SeqsUpTo(FileEntries(e, Names) \cup OddEntries({"gone"}), MaxFairFiles)]

InitFair == InputsOk(FairTrees, MaxWorkers, TRUE) /\ FirstRun /\ Fresh

FairSpec == InitFair /\ [][Next]_vars /\ WF_vars(Next)

\* The sequential head of a run alone, over larger trees and worker counts.
NextScan == Scan
SpecScan == InitScan /\ [][NextScan]_vars

\* The same unzip batch run again: same root, same entries, same output
\* root, on the disk the run before left. skip_existing may be turned on
\* for the next run, and what made an archive fail may have gone by then.
OnDisk == [dirs  |-> pre_dirs \cup made,
           files |-> (IF run > 1 THEN prev.files ELSE {}) \cup written,
           out   |-> out_exists \/ out_made]

Healed(t) == [k \in DOMAIN t |-> [t[k] EXCEPT !.bad = FALSE]]

Rerun ==
    /\ pc = "done"
    /\ run < MaxRuns
    /\ IsUnzip(engine)
    /\ run' = run + 1
    /\ prev' = OnDisk
    /\ tree' \in {tree, Healed(tree)}
    /\ pre_dirs' = OnDisk.dirs
    /\ out_exists' = OnDisk.out
    /\ skip' \in {skip, TRUE}
    /\ left_failed' = IF skip'
                        THEN left_failed \cup {i \in Items : st[i] = "failed"}
                        ELSE {}
    /\ pc' = "start" /\ ret' = "none" /\ disc' = "none"
    /\ catalog' = <<>> /\ chunks' = <<>> /\ cur' = 0
    /\ st' = [i \in Items |-> "pending"]
    /\ calls' = [i \in Items |-> 0]
    /\ out_made' = FALSE /\ made' = {} /\ written' = {}
    /\ results' = <<>> /\ report' = {}
    /\ UNCHANGED <<engine, root_ok, workers, dry_run, remove_all,
                   has_output, output_ok, sopt, sfs, sres>>

InitTwice == Init /\ IsUnzip(engine)

NextTwice == Next \/ Rerun

SpecTwice == InitTwice /\ [][NextTwice]_vars

\* The unzip engines as the build schedules them. extract_zip_file is an
\* async fn whose body only calls blocking std::fs and zip functions: it
\* has no point at which it can yield, so a future of join_all, once
\* polled, runs to its end, and join_all polls its futures in their order.
Polled(i) ==
    /\ Running = {}
    /\ \A j \in Dispatched : j < i => Terminal(j)

StartPolled(i) == Polled(i) /\ StartItem(i)

InitPolled == Init /\ IsUnzip(engine)

NextPolled ==
    \/ Scan
    \/ \E i \in Items : StartPolled(i)
    \/ \E i \in Items : FinishItem(i)
    \/ JoinChunk
    \/ ReturnResults
    \/ JoinAll

SpecPolled == InitPolled /\ [][NextPolled]_vars

\* ------------------------------------------- one strip transform alone
\* strip_metadata_file on one item, with its files in view.  A tag is the set
\* of the ids of its frames, each frame carrying its value with it; a file
\* that has no readable tag has tag <<>>, one with a tag T has tag <<T>>.
\* An Option is <<>> for None and <<x>> for Some(x).
MaxKeep == 2        \* names in keep_fields
MaxTagFrames == 2   \* frames in the tag of the source

StdNames == {"title", "artist", "album", "year", "track", "genre"}

\* the frame behind each accessor of the tag
FrameOf == [n \in StdNames |->
               CASE n = "title"  -> "TIT2"
                 [] n = "artist" -> "TPE1"
                 [] n = "album"  -> "TALB"
                 [] n = "year"   -> "TYER"
                 [] n = "track"  -> "TRCK"
                 [] n = "genre"  -> "TCON"]

FrameIds == {FrameOf[n] : n \in StdNames} \cup {"TXXX"}

\* one piece of keep_fields.split(','): its text without the surrounding
\* white space, and whether it had any
KeepTokens ==
    {[text |-> n, pad |-> FALSE] : n \in StdNames \cup {"TIT2", "TXXX"}}
        \cup {[text |-> "title", pad |-> TRUE]}

Tags == {<<>>} \cup {<<T>> : T \in {S \in SUBSET FrameIds :
                                       Cardinality(S) <= MaxTagFrames}}

\* the files before the transform: the source, no file of that name in a
\* separate output root, and that output root there or not
Fs0(o) == [src    |-> [data |-> "audio", tag |-> o.tag],
           out    |-> <<>>,
           outdir |-> o.outdir]

\* out: "none" for no output root, "same" for an output root that is the
\* directory of the item, "other" for any other one
InitStrip ==
    /\ sopt \in {o \in [out : {"none", "same", "other"}, outdir : BOOLEAN,
                        remove_all : BOOLEAN, dry_run : BOOLEAN,
                        io_ok : BOOLEAN,
                        keep : {<<>>} \cup {<<L>> : L \in
                                               SeqsUpTo(KeepTokens, MaxKeep)},
                        tag : Tags] :
                     /\ o.outdir => o.out = "other"
                     /\ o.dry_run => o.io_ok}
    /\ sfs = Fs0(sopt)
    /\ sres = "none"
    /\ engine = "strip" /\ root_ok = TRUE /\ tree = <<>> /\ workers = 1
    /\ skip = FALSE /\ dry_run = sopt.dry_run
    /\ remove_all = sopt.remove_all
    /\ has_output = (sopt.out # "none") /\ output_ok = TRUE
    /\ pre_dirs = {}
    /\ out_exists = sopt.outdir /\ run = 1 /\ prev = <<>>
    /\ left_failed = {}
    /\ Fresh

\* `if !dry_run { .. }` around everything that touches a file
Mutates_always(o) == TRUE

Mutates(o) == ~o.dry_run

\* `if output_path != mp3_file.path { fs::copy(..) }`
Copies(o) == o.out = "other"

\* Tag::new(), the tag that is filled and written
NewTag_clone(T) == T

NewTag(T) == {}

\* one arm of `match field.trim()`: a first-class name copies the frame of
\* its accessor if the source has it; any other text is looked up with
\* tag.get(field), the text as it was split, white space included
KeepArm(T, tok) ==
    IF tok.text \in StdNames
      THEN {FrameOf[tok.text]} \cap T
      ELSE IF tok.pad THEN {} ELSE {tok.text} \cap T

RECURSIVE KeepLoop(_, _, _, _)
KeepLoop(T, fields, k, new) ==
    IF k > Len(fields) THEN new
    ELSE KeepLoop(T, fields, k + 1, new \cup KeepArm(T, fields[k]))

\* the tag written over a readable tag T, <<>> if none is written
Rewrite_unread(o, t) ==
    LET T == IF t = <<>> THEN {} ELSE t[1]
    IN  IF o.remove_all THEN <<{}>>
        ELSE IF o.keep # <<>> THEN <<KeepLoop(T, o.keep[1], 1, {})>>
        ELSE <<>>

Rewrite_no_list_is_empty_list(o, t) ==
    IF t = <<>> THEN <<>>
    ELSE IF o.remove_all THEN <<{}>>
    ELSE IF o.keep # <<>> THEN <<KeepLoop(t[1], o.keep[1], 1, {})>>
    ELSE <<{}>>

Rewrite_keep_first(o, t) ==
    IF t = <<>> THEN <<>>
    ELSE IF o.keep # <<>> THEN <<KeepLoop(t[1], o.keep[1], 1, {})>>
    ELSE IF o.remove_all THEN <<{}>>
    ELSE <<>>

Rewrite(o, t) ==
    IF t = <<>> THEN <<>>
    ELSE IF o.remove_all THEN <<NewTag(t[1])>>
    ELSE IF o.keep # <<>>
      THEN <<KeepLoop(t[1], o.keep[1], 1, NewTag(t[1]))>>
    ELSE <<>>

strip_metadata_file(o, fs) ==
    IF ~Mutates(o) THEN [fs |-> fs, res |-> "ok"]
    ELSE
      LET fs1 == IF o.out = "other" THEN [fs EXCEPT !.outdir = TRUE] ELSE fs
      IN  IF Copies(o) /\ ~o.io_ok THEN [fs |-> fs1, res |-> "err"]
          ELSE
            LET fs2 == IF Copies(o) THEN [fs1 EXCEPT !.out = <<fs1.src>>]
                       ELSE fs1
                old == fs2.src.tag
                new == Rewrite(o, old)
            IN  IF new = <<>> THEN [fs |-> fs2, res |-> "ok"]
                ELSE IF ~o.io_ok THEN [fs |-> fs2, res |-> "err"]
                ELSE IF Copies(o)
                  THEN [fs  |-> [fs2 EXCEPT !.out = <<[fs2.src EXCEPT
                                                         !.tag = new]>>],
                        res |-> "ok"]
                ELSE [fs  |-> [fs2 EXCEPT !.src.tag = new],
                      res |-> "ok"]

StripFile ==
    /\ sres = "none"
    /\ sopt # <<>>
    /\ sfs' = strip_metadata_file(sopt, sfs).fs
    /\ sres' = strip_metadata_file(sopt, sfs).res
    /\ UNCHANGED <<engine, root_ok, tree, workers, skip, dry_run, remove_all,
                   has_output, output_ok, pre_dirs, out_exists, run, prev,
                   left_failed, sopt, pc, ret, disc, catalog, chunks, cur,
                   st, calls,
                   out_made, made, written, results, report>>

NextStrip == StripFile

SpecStrip == InitStrip /\ [][NextStrip]_vars

\* the desktop command strip_metadata: whatever the engine did, Ok(()) becomes
\* the one line "Metadata stripping completed" and Err(e) its text
StripDone == [item |-> 0, ok |-> TRUE]

strip_metadata == IF ret = "ok" THEN <<StripDone>> ELSE <<>>

\* ================================================================ claims
Todo == ToProcess(engine, skip, tree, catalog)
TodoSet == {Todo[k] : k \in 1..Len(Todo)}
Completed == pc = "done" /\ ret = "ok"
Count(S) == Cardinality(S)

\* C1 - per-item failure isolation: no transform is ever invoked twice, and
\* when the run has returned every item handed to the engine has had its
\* transform invoked exactly once, whatever items failed.
C1_FailureIsolation ==
    /\ \A i \in Items : calls[i] <= 1
    /\ Completed => \A i \in TodoSet : calls[i] = 1

\* a completed run in which the first item of a chunk failed and the item
\* after it in the same chunk was still processed, beside another chunk
C1_Witness ==
    /\ Completed
    /\ Len(chunks) = 2
    /\ Len(chunks[1]) = 2
    /\ st[chunks[1][1]] = "failed"
    /\ st[chunks[1][2]] = "ok" /\ calls[chunks[1][2]] = 1
    /\ calls[chunks[2][1]] = 1

\* C2 - a completed bulk-extract run gives exactly one outcome per catalog
\* entry (a returned line for the desktop engine, a printed line for the
\* command-line engine), success exactly for the items whose transform
\* succeeded; when nothing is skipped the failures are exactly the corrupt
\* archives; the run itself returns success.
C2_OneOutcomePerEntry ==
    (IsUnzip(engine) /\ pc = "done" /\ disc = "ok" /\ catalog # <<>>
        /\ output_ok /\ workers > 0) =>
        /\ ret = "ok"
        /\ \A i \in TodoSet :
              /\ engine = "gui_unzip" =>
                    /\ Count({k \in 1..Len(results) : results[k].item = i}) = 1
                    /\ \A k \in 1..Len(results) :
                          results[k].item = i => results[k].ok = (st[i] = "ok")
              /\ engine = "cli_unzip" =>
                    {l \in report : l.item = i} = {[item |-> i, ok |-> st[i] = "ok"]}
              /\ ~skip => ((st[i] = "ok") = ~tree[i].bad)
        /\ engine = "gui_unzip" => Len(results) = Len(catalog)
        /\ engine = "cli_unzip" => Count(report) = Len(catalog)

\* two valid archives and one corrupt one: two successes and one failure
C2_Witness ==
    /\ engine = "gui_unzip" /\ Completed /\ ~skip
    /\ Len(catalog) = 3
    /\ Count({i \in Items : tree[i].bad}) = 1
    /\ Count({k \in 1..Len(results) : results[k].ok}) = 2
    /\ Count({k \in 1..Len(results) : ~results[k].ok}) = 1

\* C3 - the list the desktop extract run returns is in catalog order at every
\* moment and for every interleaving: its k-th line is the line of the k-th
\* catalog entry, so it is a function of the catalog and the per-item results
\* alone (with nothing skipped: of the catalog alone).
C3_CatalogOrder ==
    (engine = "gui_unzip" /\ catalog # <<>>) =>
        /\ Len(results) <= Len(catalog)
        /\ \A k \in 1..Len(results) :
              /\ results[k].item = catalog[k]
              /\ Terminal(catalog[k])
              /\ results[k].ok = (st[catalog[k]] = "ok")
              /\ ~skip => results[k].ok = ~tree[catalog[k]].bad
        /\ Completed => Len(results) = Len(catalog)

\* a returned list over two chunks, with mixed results
C3_Witness ==
    /\ engine = "gui_unzip" /\ Completed
    /\ Len(chunks) = 2 /\ Len(results) = 3
    /\ results[1].ok /\ ~results[2].ok /\ results[3].ok

\* C4 - the chunks are a contiguous, non-overlapping, order-preserving exact
\* cover of the items to process: concatenated they are that list; no chunk
\* is empty; there are at most min(W, M) of them.
C4_ExactCover ==
    (pc = "running") =>
        /\ Flatten(chunks) = Todo
        /\ \A c \in 1..Len(chunks) : chunks[c] # <<>>
        /\ Len(chunks) <= Min(workers, Len(Todo))

\* four items over three workers: two chunks of two
C4_Witness ==
    /\ pc = "running"
    /\ Len(Todo) = 4 /\ workers = 3
    /\ Len(chunks) = 2

\* C5 - a worker count of 0, or one above the catalog size, is normalised
\* before chunking: with a non-empty catalog the run does not crash.
C5_WorkersNormalized ==
    (pc # "start" /\ Todo # <<>> /\ (workers = 0 \/ workers > Len(Todo))) =>
        ret # "panic"

C7_ReturnAfterAllWorkers ==
    Completed =>
        /\ \A i \in Dispatched : Terminal(i)
        /\ Running = {}

\* a returned strip run of three chunks whose first item failed
C7_Witness ==
    /\ engine = "strip" /\ Completed
    /\ Len(chunks) = 3
    /\ st[chunks[1][1]] = "failed"
    /\ Terminal(chunks[2][1]) /\ Terminal(chunks[3][1])

\* C8 - termination: for every worker count W >= 1, under fair scheduling
\* every started run eventually returns, with every dispatched item in a
\* terminal state.
C8_Termination ==
    (workers >= 1) =>
        <>(pc = "done" /\ ret \in {"ok", "err"}
              /\ \A i \in Dispatched : Terminal(i))

\* a command-line extract run that returned after a failure in each chunk
C8_Witness ==
    /\ engine = "cli_unzip" /\ Completed
    /\ Len(chunks) = 2 /\ Len(Todo) = 2
    /\ \A c \in 1..2 : \E i \in InChunk(c) : st[i] = "failed"

\* C9 - a run-level failure aborts the run before any worker is spawned: a
\* run that returns an error has built no future, invoked no transform and
\* written nothing, and returns no per-item line.
C9_RunLevelAbort ==
    (ret = "err") =>
        /\ pc = "done"
        /\ chunks = <<>>
        /\ \A i \in Items : calls[i] = 0 /\ st[i] = "pending"
        /\ made = {} /\ written = {}
        /\ results = <<>> /\ report = {}

\* the output root could not be created for a catalog of three items
C9_Witness ==
    /\ ret = "err" /\ disc = "ok"
    /\ has_output /\ ~output_ok
    /\ Len(catalog) = 3

\* C10 - discovery fails exactly when the root cannot be walked; a root
\* that can be walked and holds no matching file gives an empty catalog.
C10_DiscoveryFailsOnlyOnRoot ==
    (pc # "start") =>
        /\ (disc = "err") = ~root_ok
        /\ (root_ok /\ \A i \in Items : tree[i].kind \in {"other", "err"}) =>
              (disc = "ok" /\ catalog = <<>>)

\* C11 - an entry that cannot be read never aborts discovery, a matching
\* file whose metadata cannot be read included: the walk of a readable root
\* succeeds and the catalog holds every matching file that could be read.
C11_UnreadableEntryNeverAborts ==
    (pc # "start" /\ root_ok) =>
        /\ disc = "ok"
        /\ {catalog[k] : k \in 1..Len(catalog)} =
               {i \in Items : tree[i].kind = "file"}

\* C12 - an empty catalog makes zero chunks and spawns no worker: the run
\* returns at once, without error, with no line or with the one sentinel
\* line, and with nothing created, for every worker count, 0 included.
C12_EmptyCatalog ==
    (pc # "start" /\ disc = "ok" /\ catalog = <<>>) =>
        /\ Completed
        /\ chunks = <<>>
        /\ \A i \in Items : calls[i] = 0 /\ st[i] = "pending"
        /\ results = (IF engine = "gui_unzip" THEN <<NoneFound>> ELSE <<>>)
        /\ ~out_made /\ made = {} /\ written = {}

\* a tree of non-matching entries only, scanned with zero workers
C12_Witness ==
    /\ Completed /\ disc = "ok" /\ catalog = <<>>
    /\ workers = 0
    /\ Len(tree) = 2

\* C14 - the paths written for two distinct catalog items never overlap,
\* items of the same stem in different sub-directories included: two
\* archives never get the same target directory, so no two extractions in
\* progress at the same time write under the same directory.
C14_DisjointTargets ==
    (IsUnzip(engine) /\ pc = "running") =>
        /\ \A i, j \in TodoSet : i # j => Target(i) # Target(j)
        /\ \A i, j \in Running : i # j => Target(i) # Target(j)

\* C16 - a whole strip run with dry_run leaves the file system as it was:
\* no file is written and no directory is created, an output root that
\* does not exist yet included.
C16_DryRunLeavesDisk ==
    (engine = "strip" /\ dry_run /\ Completed) =>
        /\ ~out_made
        /\ made = {} /\ written = {}

\* C19 - a completed strip run of the command surface returns one line per
\* processed item, in catalog order, a failed item as a failure line.
C19_StripCommandLines ==
    (engine = "strip" /\ Completed /\ Todo # <<>>) =>
        strip_metadata = [k \in 1..Len(Todo) |->
                              Line(Todo[k], st[Todo[k]] = "ok")]

Rewritten == IF Copies(sopt) THEN sfs.out[1] ELSE sfs.src

\* a first-class field is named in a keep list by its name, white space
\* around it or not, or by the id of its frame, looked up as it is
Named(n, L) ==
    \E k \in 1..Len(L) :
        \/ L[k].text = n
        \/ L[k].text = FrameOf[n] /\ ~L[k].pad

\* C15 - with dry_run the strip transform of an item changes nothing on
\* disk, whatever the output root, remove_all and keep_fields: no directory
\* and no file is created, the source and any output file are as before,
\* and the item is a success.
C15_DryRunTransform ==
    (sres # "none" /\ sopt.dry_run) =>
        /\ sfs = Fs0(sopt)
        /\ sres = "ok"

\* a dry run with an output root that does not exist, remove_all and a
\* keep list, on a file with a tag
C15_Witness ==
    /\ sres = "ok" /\ sopt.dry_run
    /\ sopt.out = "other" /\ ~sopt.outdir
    /\ sopt.remove_all /\ sopt.keep # <<>>
    /\ sopt.tag \notin {<<>>, <<{}>>}

\* C17 - with an output root the transform never changes the source file,
\* an output root that is the directory of the item included: every
\* rewrite goes to the copy.
C17_SourceUntouched ==
    (sres # "none" /\ sopt.out # "none") =>
        sfs.src = Fs0(sopt).src

\* C18 - for a readable tag and no dry_run: with remove_all the tag written
\* has no field; with a keep list L (and no remove_all) the tag written has,
\* of the six first-class fields, exactly those named in L that the source
\* has, with the frame of the source.
C18_WrittenTag ==
    (sres = "ok" /\ ~sopt.dry_run /\ sopt.tag # <<>>) =>
        /\ sopt.remove_all => Rewritten.tag = <<{}>>
        /\ (~sopt.remove_all /\ sopt.keep # <<>>) =>
              /\ Rewritten.tag # <<>>
              /\ \A n \in StdNames :
                    FrameOf[n] \in Rewritten.tag[1] <=>
                        (Named(n, sopt.keep[1]) /\ FrameOf[n] \in sopt.tag[1])

\* a list of two names, one of them with white space, kept one frame of
\* the source and dropped the other
C18_Witness ==
    /\ sres = "ok" /\ ~sopt.dry_run /\ ~sopt.remove_all
    /\ sopt.keep # <<>> /\ sopt.tag # <<>>
    /\ Len(sopt.keep[1]) = 2
    /\ \E k \in 1..2 : sopt.keep[1][k].pad
    /\ Rewritten.tag = <<{"TIT2"}>>
    /\ sopt.tag = <<{"TIT2", "TPE1"}>>

\* C20 - an item whose tag cannot be read when the transform reads it is a
\* success and nothing is rewritten, whatever remove_all and keep_fields:
\* no tag is written, the copy, if one was made, is the source as it was.
C20_UnreadableTagNoOp ==
    (sres # "none" /\ ~sopt.dry_run /\ sopt.tag = <<>>
        /\ (Copies(sopt) => sopt.io_ok)) =>
        /\ sres = "ok"
        /\ sfs.src = Fs0(sopt).src
        /\ sfs.out = (IF Copies(sopt) THEN <<Fs0(sopt).src>> ELSE <<>>)

\* remove_all and a keep list on a file without a readable tag, in place
C20_Witness ==
    /\ sres = "ok" /\ ~sopt.dry_run /\ sopt.tag = <<>>
    /\ sopt.remove_all /\ sopt.keep # <<>>
    /\ sopt.out = "none"

\* C21 - with skip_clean and a catalog in which no entry has metadata, the
\* strip engine returns at once with success and no outcome: it makes no
\* chunk, spawns no worker and invokes no transform, whatever the worker
\* count.
C21_SkipCleanShortCircuit ==
    (/\ engine = "strip" /\ skip
     /\ pc # "start" /\ disc = "ok" /\ catalog # <<>>
     /\ \A k \in 1..Len(catalog) : ~tree[catalog[k]].tag) =>
        /\ Completed
        /\ chunks = <<>>
        /\ results = <<>> /\ report = {}
        /\ \A i \in Items : calls[i] = 0 /\ st[i] = "pending"
        /\ written = {}

\* three files without a tag, skip_clean, zero workers
C21_Witness ==
    /\ engine = "strip" /\ skip /\ Completed
    /\ Len(catalog) = 3
    /\ \A k \in 1..3 : ~tree[catalog[k]].tag
    /\ workers = 0

\* the least q with q * w >= m
CeilDiv(m, w) == CHOOSE q \in 0..m : q * w >= m /\ (q = 0 \/ (q - 1) * w < m)

\* C22 - for M >= 1 items and W >= 1 workers every chunk but the last has
\* exactly ceil(M / W) items and the last has between 1 and ceil(M / W);
\* no chunk is empty; with W > M there are M chunks of one item each.
C22_ChunkSizes ==
    (pc = "running" /\ workers >= 1 /\ Len(Todo) >= 1) =>
        LET M == Len(Todo)
            q == CeilDiv(M, workers)
            n == Len(chunks)
        IN  /\ n >= 1
            /\ \A c \in 1..(n - 1) : Len(chunks[c]) = q
            /\ Len(chunks[n]) \in 1..q
            /\ (workers > M) =>
                  (n = M /\ \A c \in 1..n : Len(chunks[c]) = 1)

\* three items over two workers: a chunk of two and a last chunk of one
C22_Witness ==
    /\ pc = "running"
    /\ Len(Todo) = 3 /\ workers = 2
    /\ Len(chunks) = 2
    /\ Len(chunks[1]) = 2 /\ Len(chunks[2]) = 1

\* C25 - with skip_clean the strip engine dispatches exactly the catalog
\* entries that have metadata, in catalog order: an entry without metadata
\* is never transformed and never copied to the output root.
C25_SkipCleanDispatch ==
    (engine = "strip" /\ skip /\ (pc = "running" \/ Completed)) =>
        /\ Flatten(chunks) = SelectSeq(catalog, LAMBDA i : tree[i].tag)
        /\ \A i \in Items :
              ~tree[i].tag => (calls[i] = 0 /\ st[i] = "pending"
                                 /\ i \notin written)

\* of three files one has no tag; with an output root the two others were
\* copied and the run completed
C25_Witness ==
    /\ engine = "strip" /\ skip /\ Completed
    /\ has_output /\ ~dry_run
    /\ Len(catalog) = 3
    /\ Count({i \in Items : tree[i].tag}) = 2
    /\ Count(written) = 2

\* C23 - with neither remove_all nor a keep list the transform rewrites no
\* tag: in place the file is as it was, and with an output root the output
\* file is a copy of the source, byte for byte, the source being untouched.
C23_NeitherFlagNoRewrite ==
    (sres = "ok" /\ ~sopt.dry_run /\ ~sopt.remove_all /\ sopt.keep = <<>>) =>
        /\ sfs.src = Fs0(sopt).src
        /\ Rewritten = Fs0(sopt).src
        /\ sfs.out = (IF Copies(sopt) THEN <<Fs0(sopt).src>> ELSE <<>>)

\* a file with two frames was copied to a separate output root, no flag set
C23_Witness ==
    /\ sres = "ok" /\ ~sopt.dry_run
    /\ ~sopt.remove_all /\ sopt.keep = <<>>
    /\ sopt.out = "other"
    /\ sopt.tag = <<{"TIT2", "TXXX"}>>
    /\ sfs.out # <<>>

\* C26 - with remove_all and a keep list both given, remove_all wins: the
\* tag written is empty, and no frame named in the keep list survives.
C26_RemoveAllPrecedence ==
    (/\ sres = "ok" /\ ~sopt.dry_run /\ sopt.tag # <<>>
     /\ sopt.remove_all /\ sopt.keep # <<>>) =>
        /\ Rewritten.tag = <<{}>>
        /\ \A n \in StdNames :
              Named(n, sopt.keep[1]) => FrameOf[n] \notin Rewritten.tag[1]

\* remove_all with the keep list "title" on a file that has a title
C26_Witness ==
    /\ sres = "ok" /\ ~sopt.dry_run
    /\ sopt.remove_all
    /\ sopt.keep = <<(<<[text |-> "title", pad |-> FALSE]>>)>>
    /\ sopt.tag = <<{"TIT2"}>>
    /\ Rewritten.tag = <<{}>>

RECURSIVE InOrder(_, _, _)
InOrder(todo, k, acc) ==
    IF k > Len(todo) THEN acc
    ELSE LET i == todo[k]
         IN  IF skip /\ Target(i) \in acc.dirs
               THEN InOrder(todo, k + 1,
                            [acc EXCEPT !.st = [@ EXCEPT ![i] = "ok"]])
             ELSE IF tree[i].bad
               THEN InOrder(todo, k + 1,
                            [acc EXCEPT !.st = [@ EXCEPT ![i] = "failed"],
                                        !.dirs = @ \cup {Target(i)}])
             ELSE InOrder(todo, k + 1,
                          [acc EXCEPT !.st = [@ EXCEPT ![i] = "ok"],
                                      !.dirs = @ \cup {Target(i)},
                                      !.files = @ \cup {i}])

\* C27 - the command-line and the desktop extract engine are equivalent:
\* on the same catalog, worker count, skip_existing and failing archives,
\* a completed run of either has invoked the transform once on each item,
\* with the per-item results and the disk that extracting the catalog in
\* its order gives; none of this depends on the engine.
C27_EnginesEquivalent ==
    (IsUnzip(engine) /\ Completed /\ workers >= 1) =>
        LET want == InOrder(catalog, 1,
                            [st    |-> [i \in Items |-> "pending"],
                             dirs  |-> pre_dirs,
                             files |-> {}])
        IN  /\ st = want.st
            /\ \A i \in Items :
                  calls[i] = (IF \E k \in 1..Len(catalog) : catalog[k] = i
                                THEN 1 ELSE 0)
            /\ pre_dirs \cup made = want.dirs
            /\ written = want.files

\* the desktop engine, two workers, skip_existing: of two archives of the
\* same stem the first was extracted and the second skipped, a third failed
C27_Witness ==
    /\ engine = "gui_unzip" /\ Completed /\ skip
    /\ workers = 2 /\ Len(catalog) = 3
    /\ \E i, j, k \in Items :
          /\ i < j /\ Target(i) = Target(j)
          /\ i \in written /\ j \notin written /\ st[j] = "ok"
          /\ st[k] = "failed"

====
